---- MODULE Spec2Model ----
(***************************************************************************)
(* Option builders of the stream commands (go/api/options) and their       *)
(* lowering to command tokens:                                             *)
(*   XTrimOptions, XAddOptions, StreamClaimOptions  (stream_options.go)    *)
(*   ZScanOptions over BaseScanOptions              (zscan options file)   *)
(* A caller constructs option objects, calls their fluent setters and      *)
(* calls ToArgs.  Every call is one action; `last` names the call just     *)
(* made and `ret` holds what it returned.                                  *)
(***************************************************************************)
EXTENDS Integers, Sequences, FiniteSets, TLC

VARIABLES
    live,   \* the option objects the caller has constructed and still holds
    xto,    \* the XTrimOptions object
    built,  \* history: the factory that built xto and the argument it got
    xao,    \* the XAddOptions object; xao.trimOptions is a pointer
    sco,    \* the StreamClaimOptions object
    zso,    \* the ZScanOptions object
    last,   \* the call just made
    again,  \* whether the call made before it was the same call
    ret     \* the value that call returned

vars == <<live, xto, built, xao, sco, zso, last, again, ret>>

---------------------------------------------------------------------------
(* Bounds on the arguments the caller passes. *)

MaxLimit == 2
MaxIdle == 1
MaxRetry == 3
MaxCount == 1

LimitArgs == -1 .. MaxLimit
IdleArgs == -1 .. MaxIdle
RetryArgs == -1 .. MaxRetry
CountArgs == -1 .. MaxCount
MinIdThresholds == {"0-1", "LIMIT"}
MaxLenThresholds == {-1, 1000}
Ids == {"", "100-500"}
Matches == {"", "a*"}

---------------------------------------------------------------------------
(* triStateBool *)

triStateBoolUndefined == 0
triStateBoolTrue == 1
triStateBoolFalse == 2

(* Pointers and errors. *)
NilPtr == "nil"
TrimPtr == "xto"
NoError == "nil"

Range(s) == {s[i] : i \in DOMAIN s}

---------------------------------------------------------------------------
(* utils.IntToString: the decimal text of a signed integer. *)

Digit(d) ==
    CASE d = 0 -> "0" [] d = 1 -> "1" [] d = 2 -> "2" [] d = 3 -> "3"
      [] d = 4 -> "4" [] d = 5 -> "5" [] d = 6 -> "6" [] d = 7 -> "7"
      [] d = 8 -> "8" [] d = 9 -> "9"

RECURSIVE NatToString(_)
NatToString(n) ==
    IF n < 10 THEN Digit(n) ELSE NatToString(n \div 10) \o Digit(n % 10)

IntToString(v) ==
    IF v < 0 THEN "-" \o NatToString(-v) ELSE NatToString(v)

---------------------------------------------------------------------------
(* XTrimOptions *)

XTrimOptionsZero ==
    [exact |-> triStateBoolUndefined, limit |-> 0, method |-> "", threshold |-> ""]

NewXTrimOptionsWithMinId(threshold) ==
    [XTrimOptionsZero EXCEPT !.threshold = threshold, !.method = "MINID"]

NewXTrimOptionsWithMaxLen(threshold) ==
    [XTrimOptionsZero EXCEPT !.threshold = IntToString(threshold), !.method = "MAXLEN"]

XTrimOptions_SetExactTrimming(x) ==
    [x EXCEPT !.exact = triStateBoolTrue]

XTrimOptions_SetNearlyExactTrimming(x) ==
    [x EXCEPT !.exact = triStateBoolFalse]

SetNearlyExactTrimmingAndLimit_KeepExact(x, limit) ==
    [x EXCEPT !.limit = limit]

XTrimOptions_SetNearlyExactTrimmingAndLimit(x, limit) ==
    [x EXCEPT !.exact = triStateBoolFalse, !.limit = limit]

XTrimOptions_ToArgs_LimitFirst(x) ==
    [args |->
        <<x.method>>
        \o (IF x.limit > 0 THEN <<"LIMIT", IntToString(x.limit)>> ELSE <<>>)
        \o (IF x.exact = triStateBoolTrue THEN <<"=">>
            ELSE IF x.exact = triStateBoolFalse THEN <<"~">> ELSE <<>>)
        \o <<x.threshold>>,
     err |-> NoError]

XTrimOptions_ToArgs_ZeroLimit(x) ==
    [args |->
        <<x.method>>
        \o (IF x.exact = triStateBoolTrue THEN <<"=">>
            ELSE IF x.exact = triStateBoolFalse THEN <<"~">> ELSE <<>>)
        \o <<x.threshold>>
        \o (IF x.limit >= 0 THEN <<"LIMIT", IntToString(x.limit)>> ELSE <<>>),
     err |-> NoError]

XTrimOptions_ToArgs(x) ==
    [args |->
        <<x.method>>
        \o (IF x.exact = triStateBoolTrue THEN <<"=">>
            ELSE IF x.exact = triStateBoolFalse THEN <<"~">> ELSE <<>>)
        \o <<x.threshold>>
        \o (IF x.limit > 0 THEN <<"LIMIT", IntToString(x.limit)>> ELSE <<>>),
     err |-> NoError]

---------------------------------------------------------------------------
(* XAddOptions *)

XAddOptionsZero ==
    [id |-> "", makeStream |-> triStateBoolUndefined, trimOptions |-> NilPtr]

XAddOptions_SetId(x, id) ==
    [x EXCEPT !.id = id]

XAddOptions_SetDontMakeNewStream(x) ==
    [x EXCEPT !.makeStream = triStateBoolFalse]

XAddOptions_SetTrimOptions(x, options) ==
    [x EXCEPT !.trimOptions = options]

XAddOptions_ToArgs_IdFirst(x, t) ==
    [args |->
        (IF x.makeStream = triStateBoolFalse THEN <<"NOMKSTREAM">> ELSE <<>>)
        \o <<IF x.id # "" THEN x.id ELSE "*">>
        \o (IF x.trimOptions # NilPtr THEN XTrimOptions_ToArgs(t).args ELSE <<>>),
     err |-> NoError]

XAddOptions_ToArgs_NoFlag(x, t) ==
    [args |->
        (IF x.trimOptions # NilPtr THEN XTrimOptions_ToArgs(t).args ELSE <<>>)
        \o <<IF x.id # "" THEN x.id ELSE "*">>,
     err |-> NoError]

(* t is the XTrimOptions object x.trimOptions points to (read only when the *)
(* pointer is not nil).                                                     *)
XAddOptions_ToArgs(x, t) ==
    LET args1 == IF x.makeStream = triStateBoolFalse THEN <<"NOMKSTREAM">> ELSE <<>>
        more  == XTrimOptions_ToArgs(t)
    IN  IF x.trimOptions # NilPtr /\ more.err # NoError
        THEN [args |-> args1, err |-> more.err]
        ELSE [args |->
                (IF x.trimOptions # NilPtr THEN args1 \o more.args ELSE args1)
                \o <<IF x.id # "" THEN x.id ELSE "*">>,
              err |-> NoError]

---------------------------------------------------------------------------
(* StreamClaimOptions *)

IDLE_VALKEY_API == "IDLE"
TIME_VALKEY_API == "TIME"
RETRY_COUNT_VALKEY_API == "RETRYCOUNT"
FORCE_VALKEY_API == "FORCE"

StreamClaimOptionsZero ==
    [idleTime |-> 0, idleUnixTime |-> 0, retryCount |-> 0, isForce |-> FALSE]

StreamClaimOptions_SetIdleTime(s, idleTime) ==
    [s EXCEPT !.idleTime = idleTime]

StreamClaimOptions_SetIdleUnixTime(s, idleUnixTime) ==
    [s EXCEPT !.idleUnixTime = idleUnixTime]

StreamClaimOptions_SetRetryCount(s, retryCount) ==
    [s EXCEPT !.retryCount = retryCount]

StreamClaimOptions_ToArgs_NonNegative(s) ==
    [args |->
        (IF s.idleTime >= 0
            THEN <<IDLE_VALKEY_API, IntToString(s.idleTime)>> ELSE <<>>)
        \o (IF s.idleUnixTime > 0
            THEN <<TIME_VALKEY_API, IntToString(s.idleUnixTime)>> ELSE <<>>)
        \o (IF s.retryCount > 0
            THEN <<RETRY_COUNT_VALKEY_API, IntToString(s.retryCount)>> ELSE <<>>)
        \o (IF s.isForce THEN <<FORCE_VALKEY_API>> ELSE <<>>),
     err |-> NoError]

StreamClaimOptions_ToArgs(s) ==
    [args |->
        (IF s.idleTime > 0
            THEN <<IDLE_VALKEY_API, IntToString(s.idleTime)>> ELSE <<>>)
        \o (IF s.idleUnixTime > 0
            THEN <<TIME_VALKEY_API, IntToString(s.idleUnixTime)>> ELSE <<>>)
        \o (IF s.retryCount > 0
            THEN <<RETRY_COUNT_VALKEY_API, IntToString(s.retryCount)>> ELSE <<>>)
        \o (IF s.isForce THEN <<FORCE_VALKEY_API>> ELSE <<>>),
     err |-> NoError]

---------------------------------------------------------------------------
(* BaseScanOptions: the shared base of the scan option types (match        *)
(* pattern and count hint).                                                *)

MatchKeyword == "MATCH"
CountKeyword == "COUNT"
NoScores == "NOSCORES"

BaseScanOptionsZero ==
    [match |-> "", count |-> 0]

BaseScanOptions_SetMatch(b, m) ==
    [b EXCEPT !.match = m]

BaseScanOptions_SetCount(b, c) ==
    [b EXCEPT !.count = c]

BaseScanOptions_ToArgs(b) ==
    [args |->
        (IF b.match # "" THEN <<MatchKeyword, b.match>> ELSE <<>>)
        \o (IF b.count # 0 THEN <<CountKeyword, IntToString(b.count)>> ELSE <<>>),
     err |-> NoError]

---------------------------------------------------------------------------
(* ZScanOptions *)

ZScanOptionsZero ==
    [BaseScanOptions |-> BaseScanOptionsZero, noScores |-> FALSE]

ZScanOptions_SetNoScores(z, noScores) ==
    [z EXCEPT !.noScores = noScores]

ZScanOptions_SetMatch(z, match) ==
    [z EXCEPT !.BaseScanOptions = BaseScanOptions_SetMatch(@, match)]

ZScanOptions_SetCount(z, count) ==
    [z EXCEPT !.BaseScanOptions = BaseScanOptions_SetCount(@, count)]

ZScanOptions_ToArgs_OwnFirst(z) ==
    LET base == BaseScanOptions_ToArgs(z.BaseScanOptions)
    IN  [args |-> (IF z.noScores THEN <<NoScores>> ELSE <<>>) \o base.args,
         err |-> base.err]

ZScanOptions_ToArgs(z) ==
    LET base == BaseScanOptions_ToArgs(z.BaseScanOptions)
    IN  [args |-> base.args \o (IF z.noScores THEN <<NoScores>> ELSE <<>>),
         err |-> base.err]

---------------------------------------------------------------------------
(* The caller.  A builder call returns its receiver; ToArgs returns the    *)
(* pair (tokens, error).                                                   *)

Returned(p) == [ptr |-> p, args |-> <<>>, err |-> NoError]
Result(r) == [ptr |-> NilPtr, args |-> r.args, err |-> r.err]

Called(op) == last' = op /\ again' = (last = op)

BuiltZero == [factory |-> "", minId |-> "", maxLen |-> 0]

Init ==
    /\ live = {}
    /\ xto = XTrimOptionsZero
    /\ built = BuiltZero
    /\ xao = XAddOptionsZero
    /\ sco = StreamClaimOptionsZero
    /\ zso = ZScanOptionsZero
    /\ last = "init"
    /\ again = FALSE
    /\ ret = Returned(NilPtr)

(* A factory call makes a new XTrimOptions; the model holds one such       *)
(* object, so the call waits until no XAddOptions points to the old one.   *)
Call_NewXTrimOptionsWithMinId ==
    \E threshold \in MinIdThresholds :
        /\ xao.trimOptions = NilPtr
        /\ xto' = NewXTrimOptionsWithMinId(threshold)
        /\ built' = [BuiltZero EXCEPT !.factory = "MinId", !.minId = threshold]
        /\ live' = live \cup {"xto"}
        /\ Called("NewXTrimOptionsWithMinId")
        /\ ret' = Returned(TrimPtr)
        /\ UNCHANGED <<xao, sco, zso>>

Call_NewXTrimOptionsWithMaxLen ==
    \E threshold \in MaxLenThresholds :
        /\ xao.trimOptions = NilPtr
        /\ xto' = NewXTrimOptionsWithMaxLen(threshold)
        /\ built' = [BuiltZero EXCEPT !.factory = "MaxLen", !.maxLen = threshold]
        /\ live' = live \cup {"xto"}
        /\ Called("NewXTrimOptionsWithMaxLen")
        /\ ret' = Returned(TrimPtr)
        /\ UNCHANGED <<xao, sco, zso>>

Call_XTrimOptions_SetExactTrimming ==
    /\ "xto" \in live
    /\ xto' = XTrimOptions_SetExactTrimming(xto)
    /\ Called("XTrimOptions.SetExactTrimming")
    /\ ret' = Returned(TrimPtr)
    /\ UNCHANGED <<live, built, xao, sco, zso>>

Call_XTrimOptions_SetNearlyExactTrimming ==
    /\ "xto" \in live
    /\ xto' = XTrimOptions_SetNearlyExactTrimming(xto)
    /\ Called("XTrimOptions.SetNearlyExactTrimming")
    /\ ret' = Returned(TrimPtr)
    /\ UNCHANGED <<live, built, xao, sco, zso>>

Call_XTrimOptions_SetNearlyExactTrimmingAndLimit ==
    \E limit \in LimitArgs :
        /\ "xto" \in live
        /\ xto' = XTrimOptions_SetNearlyExactTrimmingAndLimit(xto, limit)
        /\ Called("XTrimOptions.SetNearlyExactTrimmingAndLimit")
        /\ ret' = Returned(TrimPtr)
        /\ UNCHANGED <<live, built, xao, sco, zso>>

Call_XTrimOptions_ToArgs_ClearsLimit ==
    /\ "xto" \in live
    /\ Called("XTrimOptions.ToArgs")
    /\ ret' = Result(XTrimOptions_ToArgs(xto))
    /\ xto' = [xto EXCEPT !.limit = 0]
    /\ UNCHANGED <<live, built, xao, sco, zso>>

Call_XTrimOptions_ToArgs ==
    /\ "xto" \in live
    /\ Called("XTrimOptions.ToArgs")
    /\ ret' = Result(XTrimOptions_ToArgs(xto))
    /\ UNCHANGED <<live, xto, built, xao, sco, zso>>

(* The caller holds one of XAddOptions, StreamClaimOptions, ZScanOptions   *)
(* at a time: constructing one drops the one held before.                  *)
Call_NewXAddOptions ==
    /\ xao' = XAddOptionsZero
    /\ sco' = StreamClaimOptionsZero
    /\ zso' = ZScanOptionsZero
    /\ live' = (live \cap {"xto"}) \cup {"xao"}
    /\ Called("NewXAddOptions")
    /\ ret' = Returned("xao")
    /\ UNCHANGED <<xto, built>>

Call_XAddOptions_SetId ==
    \E id \in Ids :
        /\ "xao" \in live
        /\ xao' = XAddOptions_SetId(xao, id)
        /\ Called("XAddOptions.SetId")
        /\ ret' = Returned("xao")
        /\ UNCHANGED <<live, xto, built, sco, zso>>

Call_XAddOptions_SetDontMakeNewStream ==
    /\ "xao" \in live
    /\ xao' = XAddOptions_SetDontMakeNewStream(xao)
    /\ Called("XAddOptions.SetDontMakeNewStream")
    /\ ret' = Returned("xao")
    /\ UNCHANGED <<live, xto, built, sco, zso>>

Call_XAddOptions_SetTrimOptions ==
    \E options \in {NilPtr} \cup (IF "xto" \in live THEN {TrimPtr} ELSE {}) :
        /\ "xao" \in live
        /\ xao' = XAddOptions_SetTrimOptions(xao, options)
        /\ Called("XAddOptions.SetTrimOptions")
        /\ ret' = Returned("xao")
        /\ UNCHANGED <<live, xto, built, sco, zso>>

Call_XAddOptions_ToArgs ==
    /\ "xao" \in live
    /\ Called("XAddOptions.ToArgs")
    /\ ret' = Result(XAddOptions_ToArgs(xao, xto))
    /\ UNCHANGED <<live, xto, built, xao, sco, zso>>

Call_NewStreamClaimOptions ==
    /\ sco' = StreamClaimOptionsZero
    /\ xao' = XAddOptionsZero
    /\ zso' = ZScanOptionsZero
    /\ live' = (live \cap {"xto"}) \cup {"sco"}
    /\ Called("NewStreamClaimOptions")
    /\ ret' = Returned("sco")
    /\ UNCHANGED <<xto, built>>

Call_StreamClaimOptions_SetIdleTime ==
    \E idleTime \in IdleArgs :
        /\ "sco" \in live
        /\ sco' = StreamClaimOptions_SetIdleTime(sco, idleTime)
        /\ Called("StreamClaimOptions.SetIdleTime")
        /\ ret' = Returned("sco")
        /\ UNCHANGED <<live, xto, built, xao, zso>>

Call_StreamClaimOptions_SetIdleUnixTime ==
    \E idleUnixTime \in IdleArgs :
        /\ "sco" \in live
        /\ sco' = StreamClaimOptions_SetIdleUnixTime(sco, idleUnixTime)
        /\ Called("StreamClaimOptions.SetIdleUnixTime")
        /\ ret' = Returned("sco")
        /\ UNCHANGED <<live, xto, built, xao, zso>>

Call_StreamClaimOptions_SetRetryCount ==
    \E retryCount \in RetryArgs :
        /\ "sco" \in live
        /\ sco' = StreamClaimOptions_SetRetryCount(sco, retryCount)
        /\ Called("StreamClaimOptions.SetRetryCount")
        /\ ret' = Returned("sco")
        /\ UNCHANGED <<live, xto, built, xao, zso>>

Call_StreamClaimOptions_ToArgs ==
    /\ "sco" \in live
    /\ Called("StreamClaimOptions.ToArgs")
    /\ ret' = Result(StreamClaimOptions_ToArgs(sco))
    /\ UNCHANGED <<live, xto, built, xao, sco, zso>>

Call_NewZScanOptionsBuilder ==
    /\ zso' = ZScanOptionsZero
    /\ xao' = XAddOptionsZero
    /\ sco' = StreamClaimOptionsZero
    /\ live' = (live \cap {"xto"}) \cup {"zso"}
    /\ Called("NewZScanOptionsBuilder")
    /\ ret' = Returned("zso")
    /\ UNCHANGED <<xto, built>>

Call_ZScanOptions_SetNoScores ==
    \E noScores \in BOOLEAN :
        /\ "zso" \in live
        /\ zso' = ZScanOptions_SetNoScores(zso, noScores)
        /\ Called("ZScanOptions.SetNoScores")
        /\ ret' = Returned("zso")
        /\ UNCHANGED <<live, xto, built, xao, sco>>

Call_ZScanOptions_SetMatch ==
    \E match \in Matches :
        /\ "zso" \in live
        /\ zso' = ZScanOptions_SetMatch(zso, match)
        /\ Called("ZScanOptions.SetMatch")
        /\ ret' = Returned("zso")
        /\ UNCHANGED <<live, xto, built, xao, sco>>

Call_ZScanOptions_SetCount ==
    \E count \in CountArgs :
        /\ "zso" \in live
        /\ zso' = ZScanOptions_SetCount(zso, count)
        /\ Called("ZScanOptions.SetCount")
        /\ ret' = Returned("zso")
        /\ UNCHANGED <<live, xto, built, xao, sco>>

Call_ZScanOptions_ToArgs ==
    /\ "zso" \in live
    /\ Called("ZScanOptions.ToArgs")
    /\ ret' = Result(ZScanOptions_ToArgs(zso))
    /\ UNCHANGED <<live, xto, built, xao, sco, zso>>

Next ==
    \/ Call_NewXTrimOptionsWithMinId
    \/ Call_NewXTrimOptionsWithMaxLen
    \/ Call_XTrimOptions_SetExactTrimming
    \/ Call_XTrimOptions_SetNearlyExactTrimming
    \/ Call_XTrimOptions_SetNearlyExactTrimmingAndLimit
    \/ Call_XTrimOptions_ToArgs
    \/ Call_NewXAddOptions
    \/ Call_XAddOptions_SetId
    \/ Call_XAddOptions_SetDontMakeNewStream
    \/ Call_XAddOptions_SetTrimOptions
    \/ Call_XAddOptions_ToArgs
    \/ Call_NewStreamClaimOptions
    \/ Call_StreamClaimOptions_SetIdleTime
    \/ Call_StreamClaimOptions_SetIdleUnixTime
    \/ Call_StreamClaimOptions_SetRetryCount
    \/ Call_StreamClaimOptions_ToArgs
    \/ Call_NewZScanOptionsBuilder
    \/ Call_ZScanOptions_SetNoScores
    \/ Call_ZScanOptions_SetMatch
    \/ Call_ZScanOptions_SetCount
    \/ Call_ZScanOptions_ToArgs

Spec == Init /\ [][Next]_vars

---------------------------------------------------------------------------
(* The claim encoder as a function of the struct: every value of the four  *)
(* fields of StreamClaimOptions, then ToArgs.                              *)

EncInit ==
    /\ live = {"sco"}
    /\ sco \in [idleTime : IdleArgs, idleUnixTime : IdleArgs,
                retryCount : RetryArgs, isForce : BOOLEAN]
    /\ xto = XTrimOptionsZero
    /\ built = BuiltZero
    /\ xao = XAddOptionsZero
    /\ zso = ZScanOptionsZero
    /\ last = "init"
    /\ again = FALSE
    /\ ret = Returned(NilPtr)

EncNext == Call_StreamClaimOptions_ToArgs

EncSpec == EncInit /\ [][EncNext]_vars

---------------------------------------------------------------------------
(* Claims *)

ToArgsCalls ==
    {"XTrimOptions.ToArgs", "XAddOptions.ToArgs",
     "StreamClaimOptions.ToArgs", "ZScanOptions.ToArgs"}

\* C1: after any factory call and any sequence of the three exactness
\* setters, XTrimOptions.ToArgs returns [method, marker?, threshold,
\* "LIMIT" n?]: method is "MAXLEN" for the max-length factory and "MINID"
\* for the min-id factory, marker is "=" for exact, "~" for nearly exact
\* and absent when unset, threshold is the factory's argument (in decimal
\* for max-length), and the LIMIT pair is there exactly for a positive limit.
C1_TrimEncoding ==
    last = "XTrimOptions.ToArgs" =>
        LET a == ret.args
            m == IF xto.exact = triStateBoolUndefined THEN 0 ELSE 1
            l == IF xto.limit > 0 THEN 2 ELSE 0
        IN  /\ ret.err = NoError
            /\ Len(a) = 2 + m + l
            /\ a[1] = (IF built.factory = "MaxLen" THEN "MAXLEN" ELSE "MINID")
            /\ (xto.exact = triStateBoolTrue => a[2] = "=")
            /\ (xto.exact = triStateBoolFalse => a[2] = "~")
            /\ a[2 + m] = (IF built.factory = "MinId" THEN built.minId
                           ELSE IntToString(built.maxLen))
            /\ (built.factory = "MaxLen" /\ built.maxLen = 1000 => a[2 + m] = "1000")
            /\ (built.factory = "MaxLen" /\ built.maxLen = -1 => a[2 + m] = "-1")
            /\ (l = 2 => a[3 + m] = "LIMIT" /\ a[4 + m] = IntToString(xto.limit))

C1_Witness ==
    /\ last = "XTrimOptions.ToArgs"
    /\ built.factory = "MaxLen"
    /\ xto.exact = triStateBoolFalse
    /\ ret.args = <<"MAXLEN", "~", "1000", "LIMIT", "2">>

\* C2 as stated: with limit 0 no token of the XTrimOptions.ToArgs output is
\* "LIMIT", whatever the factory and the threshold; with limit n > 0 the
\* output ends with ["LIMIT", str(n)].
C2_NoLimitToken ==
    last = "XTrimOptions.ToArgs" =>
        LET a == ret.args
        IN  /\ (xto.limit = 0 => "LIMIT" \notin Range(a))
            /\ (xto.limit > 0 =>
                    /\ Len(a) >= 2
                    /\ a[Len(a) - 1] = "LIMIT"
                    /\ a[Len(a)] = IntToString(xto.limit))

\* C2 amended: with limit 0 the only token of the output that can be
\* "LIMIT" is the threshold itself (the last token, when the caller gave
\* "LIMIT" to the min-id factory), so no LIMIT keyword pair follows the
\* threshold; with limit n > 0 the output ends with ["LIMIT", str(n)].
C2_LimitPair ==
    last = "XTrimOptions.ToArgs" =>
        LET a == ret.args
        IN  /\ (xto.limit = 0 =>
                    \A i \in DOMAIN a :
                        a[i] = "LIMIT" =>
                            /\ i = Len(a)
                            /\ built.factory = "MinId"
                            /\ built.minId = "LIMIT")
            /\ (xto.limit > 0 =>
                    /\ Len(a) >= 2
                    /\ a[Len(a) - 1] = "LIMIT"
                    /\ a[Len(a)] = IntToString(xto.limit))
            /\ (xto.limit = 2 => a[Len(a)] = "2")

C2_Witness ==
    /\ last = "XTrimOptions.ToArgs"
    /\ xto.limit = 0
    /\ xto.exact = triStateBoolFalse
    /\ ret.args = <<"MINID", "~", "LIMIT">>

\* C3: XAddOptions.ToArgs returns ["NOMKSTREAM"?, <trim tokens>?, id-or-"*"]:
\* "NOMKSTREAM" first iff SetDontMakeNewStream was called, then the tokens
\* of the attached XTrimOptions (if any), and last the id, or "*" when the
\* id is empty; id "100-500" with no new stream gives
\* ["NOMKSTREAM", "100-500"].
C3_AddEncoding ==
    last = "XAddOptions.ToArgs" =>
        LET a == ret.args
            n == IF xao.makeStream = triStateBoolFalse THEN 1 ELSE 0
            t == IF xao.trimOptions # NilPtr THEN XTrimOptions_ToArgs(xto).args ELSE <<>>
        IN  /\ ret.err = NoError
            /\ Len(a) = n + Len(t) + 1
            /\ (n = 1 => a[1] = "NOMKSTREAM")
            /\ SubSeq(a, n + 1, n + Len(t)) = t
            /\ a[Len(a)] = (IF xao.id # "" THEN xao.id ELSE "*")
            /\ (xao.id = "100-500" /\ n = 1 /\ xao.trimOptions = NilPtr
                    => a = <<"NOMKSTREAM", "100-500">>)

C3_Witness ==
    /\ last = "XAddOptions.ToArgs"
    /\ ret.args = <<"NOMKSTREAM", "MAXLEN", "~", "1000", "LIMIT", "1", "100-500">>

\* C4 as stated: an XAddOptions with no id and no trim options encodes to
\* exactly ["*"], whatever its makeStream flag.
C4_OnlyStar ==
    (last = "XAddOptions.ToArgs" /\ xao.id = "" /\ xao.trimOptions = NilPtr)
        => ret.args = <<"*">>

\* C4 amended: an XAddOptions with no id and no trim options encodes to
\* ["*"] when SetDontMakeNewStream was not called and to
\* ["NOMKSTREAM", "*"] when it was.
C4_StarAfterFlag ==
    (last = "XAddOptions.ToArgs" /\ xao.id = "" /\ xao.trimOptions = NilPtr)
        => /\ ret.err = NoError
           /\ ret.args = (IF xao.makeStream = triStateBoolFalse
                          THEN <<"NOMKSTREAM", "*">> ELSE <<"*">>)

C4_Witness ==
    /\ last = "XAddOptions.ToArgs"
    /\ xao.id = ""
    /\ xao.trimOptions = NilPtr
    /\ xao.makeStream = triStateBoolFalse
    /\ ret.args = <<"NOMKSTREAM", "*">>

\* C5: StreamClaimOptions.ToArgs returns ["IDLE" idleTime?, "TIME"
\* idleUnixTime?, "RETRYCOUNT" retryCount?, "FORCE"?] in that order, a
\* keyword/value pair being there iff its field is strictly positive and
\* "FORCE" iff isForce is true; the zero struct gives [].
C5_ClaimEncoding ==
    last = "StreamClaimOptions.ToArgs" =>
        LET a == ret.args
            i == IF sco.idleTime > 0 THEN 2 ELSE 0
            u == IF sco.idleUnixTime > 0 THEN 2 ELSE 0
            r == IF sco.retryCount > 0 THEN 2 ELSE 0
            f == IF sco.isForce THEN 1 ELSE 0
        IN  /\ ret.err = NoError
            /\ Len(a) = i + u + r + f
            /\ (i = 2 => a[1] = "IDLE" /\ a[2] = IntToString(sco.idleTime))
            /\ (u = 2 => a[i + 1] = "TIME" /\ a[i + 2] = IntToString(sco.idleUnixTime))
            /\ (r = 2 => /\ a[i + u + 1] = "RETRYCOUNT"
                         /\ a[i + u + 2] = IntToString(sco.retryCount))
            /\ (f = 1 => a[i + u + r + 1] = "FORCE")
            /\ (sco = StreamClaimOptionsZero => a = <<>>)
            /\ (sco = [StreamClaimOptionsZero EXCEPT !.retryCount = 3, !.isForce = TRUE]
                    => a = <<"RETRYCOUNT", "3", "FORCE">>)

C5_Witness ==
    /\ last = "StreamClaimOptions.ToArgs"
    /\ sco.idleUnixTime <= 0
    /\ ret.args = <<"IDLE", "1", "RETRYCOUNT", "3", "FORCE">>

\* C6: the public builder can make a StreamClaimOptions with retryCount = 3,
\* force = true and the other fields unset (on which ToArgs returns
\* ["RETRYCOUNT", "3", "FORCE"]): from the object NewStreamClaimOptions and
\* SetRetryCount(3) have built, a call of the builder sets force and keeps
\* the rest.
C6_ForceBuildable ==
    ("sco" \in live /\ sco = [StreamClaimOptionsZero EXCEPT !.retryCount = 3])
        => ENABLED (Next /\ sco' = [StreamClaimOptionsZero EXCEPT
                                        !.retryCount = 3, !.isForce = TRUE])

\* What holds instead of C6: no call of the builder ever sets isForce, so
\* no reachable ToArgs output holds "FORCE".
StreamClaimOptions_NeverForce ==
    /\ ~sco.isForce
    /\ (last = "StreamClaimOptions.ToArgs" => "FORCE" \notin Range(ret.args))

\* C7: ToArgs is read-only and idempotent for all four option types: a
\* ToArgs call leaves every field of every option object (an attached
\* XTrimOptions included) as it was, and a ToArgs call that follows the
\* same ToArgs call with no other call in between returns what that one
\* returned.
C7_ToArgsReadOnlyIdempotent ==
    /\ [][last' \in ToArgsCalls => UNCHANGED <<live, xto, xao, sco, zso>>]_vars
    /\ [][(last \in ToArgsCalls /\ last' = last) => ret' = ret]_vars

C7_Witness ==
    /\ last = "XAddOptions.ToArgs"
    /\ again
    /\ xao.trimOptions = TrimPtr
    /\ xto.limit > 0
    /\ Len(ret.args) = 6

C10_LimitImpliesApproximate ==
    /\ xto.limit >= 0
    /\ (last = "XTrimOptions.ToArgs" =>
            LET a == ret.args
            IN  (Len(a) >= 2 /\ a[Len(a) - 1] = "LIMIT") => a[2] = "~")

\* C10 amended: the stored limit is 0 or an argument that
\* SetNearlyExactTrimmingAndLimit was given, negative values included, and
\* a non-zero limit comes with a set exactness; the LIMIT pair is in the
\* output iff the stored limit is positive, and then the output also holds
\* a marker, "~" or (after a later SetExactTrimming) "=", never none.
C10_LimitImpliesMarker ==
    /\ xto.limit \in LimitArgs \cup {0}
    /\ (xto.limit # 0 => xto.exact # triStateBoolUndefined)
    /\ (last = "XTrimOptions.ToArgs" =>
            LET a == ret.args
            IN  /\ (Len(a) >= 2 /\ a[Len(a) - 1] = "LIMIT") <=> xto.limit > 0
                /\ xto.limit > 0 =>
                      /\ a[2] \in {"~", "="}
                      /\ a[2] = "=" <=> xto.exact = triStateBoolTrue
                      /\ Len(a) = 5)

C10_Witness ==
    /\ last = "XTrimOptions.ToArgs"
    /\ ret.args = <<"MAXLEN", "=", "1000", "LIMIT", "2">>

====
